---- MODULE Spec2Model ----
(***************************************************************************)
(* Model of the AI processing gateway (src/main.py): the two endpoints     *)
(* /process and /process-stream, the content resolver, the prompt builder, *)
(* the two provider adapters in single-shot and streaming mode, and the    *)
(* event loop that runs the handlers.                                      *)
(*                                                                         *)
(* Python strings whose characters matter (text, url, backend output) are  *)
(* sequences of one-character strings.  Strings that are only compared or  *)
(* embedded (provider tag, model name, messages) are TLA+ strings, and a   *)
(* formatted message is the sequence of its pieces.                        *)
(***************************************************************************)
EXTENDS Integers, Sequences, FiniteSets, TLC

(***************************************************************************)
(* Bounds                                                                  *)
(***************************************************************************)
\* reads of the backend stream (lines / deltas) one generator may perform
MaxReads == 3

(***************************************************************************)
(* Python values                                                           *)
(***************************************************************************)
\* None for the TLA+-string valued fields (model_provider, model_name, ...)
Null == "<None>"
\* None for the character-sequence valued fields (text, url)
NoneStr == <<"<None>">>

\* truthiness of an Optional[str] held as a TLA+ string
Truthy(s) == s # Null /\ s # ""
\* truthiness of an Optional[str] held as a character sequence
TruthyStr(s) == s # NoneStr /\ s # <<>>

Whitespace == {" ", "\n", "\t"}
Letters == {"a", "b", "f", "h", "p", "s", "t", "H", "i", "o", "k"}
\* urllib.parse.scheme_chars restricted to the characters of the inputs
SchemeChars == Letters \cup {"+", "-", "."}

StartsWith(s, p) == Len(s) >= Len(p) /\ SubSeq(s, 1, Len(p)) = p

\* str.find(c): first index (1-based) of character c in s, 0 when absent
Find(s, c) ==
    IF \E i \in 1..Len(s) : s[i] = c
    THEN CHOOSE i \in 1..Len(s) : s[i] = c /\ \A j \in 1..(i - 1) : s[j] # c
    ELSE 0

\* first index >= from of a character of cs, Len(s)+1 when there is none
FindAnyFrom(s, cs, from) ==
    IF \E i \in from..Len(s) : s[i] \in cs
    THEN CHOOSE i \in from..Len(s) : s[i] \in cs /\ \A j \in from..(i - 1) : s[j] \notin cs
    ELSE Len(s) + 1

\* str.strip()
RECURSIVE LStrip(_)
LStrip(s) == IF s # <<>> /\ Head(s) \in Whitespace THEN LStrip(Tail(s)) ELSE s
RECURSIVE RStrip(_)
RStrip(s) ==
    IF s # <<>> /\ s[Len(s)] \in Whitespace THEN RStrip(SubSeq(s, 1, Len(s) - 1)) ELSE s
Strip(s) == LStrip(RStrip(s))

(***************************************************************************)
(* Request inputs                                                          *)
(***************************************************************************)
\* line 315: the length of the preview of a text, and what follows it
PreviewLen == 100
Ellipsis == <<".", ".", ".">>

\* a text of n characters: "x" up to the preview length, "y" at it, "z" after
LongText(n) ==
    [i \in 1..n |-> IF i < PreviewLen THEN "x" ELSE IF i = PreviewLen THEN "y" ELSE "z"]

Texts == { NoneStr, <<>>, <<"H", "i">>, LongText(PreviewLen), LongText(PreviewLen + 1) }

Urls ==
    { NoneStr,
      <<>>,
      <<"a", ".", "b", "/", "p">>,
      <<"h", "t", "t", "p", ":", "/", "/", "a", ".", "b">>,
      <<"f", "t", "p", ":", "/", "/", "a", ".", "b">>,
      <<"/", "/", "a", ".", "b">> }

Providers == { Null, "openai", "ollama", "other" }
ModelNames == { Null, "", "mistral" }
SystemPrompts == { Null, "custom" }

\* ProcessRequest: the fields the two handlers read.  The long texts are
\* sent without a url: next to a url the text is never read.
ProcessRequest ==
    { r \in [ text : Texts, url : Urls, model_provider : Providers,
              model_name : ModelNames, system_prompt : SystemPrompts ] :
        TruthyStr(r.url) => Len(r.text) < PreviewLen }

DEFAULT_SYSTEM_PROMPT == "You are a JSON structuring engine. ..."

(***************************************************************************)
(* Exceptions: [type, status_code, msg]; msg is the sequence of the pieces *)
(* of the formatted message.                                               *)
(***************************************************************************)
NoExc == [type |-> "none", status_code |-> 0, msg |-> <<>>]
Exc(t, m) == [type |-> t, status_code |-> 0, msg |-> m]
HTTPException(code, m) == [type |-> "HTTPException", status_code |-> code, msg |-> m]

\* requests.exceptions.RequestException and its subclasses
RequestExceptionTypes == { "ConnectionError", "HTTPError", "ChunkedEncodingError" }
IsRequestException(e) == e.type \in RequestExceptionTypes

(***************************************************************************)
(* Content resolver: fetch_web_content                                     *)
(***************************************************************************)
\* urllib.parse.urlparse(url): the scheme and netloc components.  The
\* inputs are lower case and carry no leading blanks or control characters,
\* so the lower-casing and stripping urlsplit performs leave them unchanged.
urlparse(url) ==
    LET i == Find(url, ":")
        hasScheme == /\ i > 1
                     /\ url[1] \in Letters
                     /\ \A j \in 1..(i - 1) : url[j] \in SchemeChars
        rest == IF hasScheme THEN SubSeq(url, i + 1, Len(url)) ELSE url
    IN  [ scheme |-> IF hasScheme THEN SubSeq(url, 1, i - 1) ELSE <<>>,
          netloc |-> IF StartsWith(rest, <<"/", "/">>)
                     THEN SubSeq(rest, 3, FindAnyFrom(rest, {"/", "?", "#"}, 3) - 1)
                     ELSE <<>> ]

HttpPrefix == <<"h", "t", "t", "p", ":", "/", "/">>
HttpsPrefix == <<"h", "t", "t", "p", "s", ":", "/", "/">>

\* str.lower() on the letters the patterns name
LowerChar(c) ==
    CASE c = "S" -> "s" [] c = "C" -> "c" [] c = "R" -> "r" [] c = "I" -> "i"
      [] c = "P" -> "p" [] c = "T" -> "t" [] c = "Y" -> "y" [] c = "L" -> "l"
      [] c = "E" -> "e" [] OTHER -> c
LowerSeq(s) == [i \in 1..Len(s) |-> LowerChar(s[i])]

\* does the literal lit (lower case) occur in s at index i, ignoring case
MatchesAt(s, i, lit) ==
    /\ i + Len(lit) - 1 <= Len(s)
    /\ LowerSeq(SubSeq(s, i, i + Len(lit) - 1)) = lit

\* first index k >= from at which lit occurs in s ignoring case, 0 if none
FindLit(s, lit, from) ==
    IF \E k \in from..Len(s) : MatchesAt(s, k, lit)
    THEN CHOOSE k \in from..Len(s) :
            MatchesAt(s, k, lit) /\ \A j \in from..(k - 1) : ~MatchesAt(s, j, lit)
    ELSE 0

\* end (index of the last character) of a match of
\* r'<tag[^>]*>.*?</tag>' (DOTALL | IGNORECASE) starting at index i, 0 if none
BlockEnd(s, i, tag) ==
    LET open == <<"<">> \o tag
        close == <<"<", "/">> \o tag \o <<">">>
    IN  IF ~MatchesAt(s, i, open) THEN 0
        ELSE LET g == FindAnyFrom(s, {">"}, i + Len(open))
             IN  IF g > Len(s) THEN 0
                 ELSE LET c == FindLit(s, close, g + 1)
                      IN  IF c = 0 THEN 0 ELSE c + Len(close) - 1

\* re.sub(r'<tag[^>]*>.*?</tag>', '', s, flags=re.DOTALL | re.IGNORECASE).
\* A match can only start at a '<': the scan copies the text up to the next
\* one in one piece.
RECURSIVE RemoveBlocksFrom(_, _, _)
RemoveBlocksFrom(s, i, tag) ==
    IF i > Len(s) THEN <<>>
    ELSE LET n == FindAnyFrom(s, {"<"}, i)
         IN  IF n > Len(s) THEN SubSeq(s, i, Len(s))
             ELSE LET e == BlockEnd(s, n, tag)
                  IN  IF e = 0 THEN SubSeq(s, i, n) \o RemoveBlocksFrom(s, n + 1, tag)
                      ELSE SubSeq(s, i, n - 1) \o RemoveBlocksFrom(s, e + 1, tag)
RemoveBlocks(s, tag) == RemoveBlocksFrom(s, 1, tag)

\* re.sub(r'<[^>]+>', '', s)
RECURSIVE RemoveTagsFrom(_, _)
RemoveTagsFrom(s, i) ==
    IF i > Len(s) THEN <<>>
    ELSE LET n == FindAnyFrom(s, {"<"}, i)
             g == FindAnyFrom(s, {">"}, n + 1)
         IN  IF n > Len(s) THEN SubSeq(s, i, Len(s))
             ELSE IF g <= Len(s) /\ g > n + 1
                  THEN SubSeq(s, i, n - 1) \o RemoveTagsFrom(s, g + 1)
                  ELSE SubSeq(s, i, n) \o RemoveTagsFrom(s, n + 1)
RemoveTags(s) == RemoveTagsFrom(s, 1)

\* re.sub(r'\s+', ' ', s)
RECURSIVE CollapseWhitespace(_)
CollapseWhitespace(s) ==
    LET w == FindAnyFrom(s, Whitespace, 1)
    IN  IF w > Len(s) THEN s
        ELSE SubSeq(s, 1, w - 1) \o <<" ">>
                \o CollapseWhitespace(LStrip(SubSeq(s, w, Len(s))))

MAX_CONTENT == 8000
TruncationMarker ==
    <<".", ".", ".", " ", "[", "C", "o", "n", "t", "e", "n", "t", " ",
      "t", "r", "u", "n", "c", "a", "t", "e", "d", "]">>

ScriptTag == <<"s", "c", "r", "i", "p", "t">>
StyleTag == <<"s", "t", "y", "l", "e">>

\* the extraction trimming the text before it strips the tags
extract_text_strip_first(html) ==
    LET noScript == RemoveBlocks(html, ScriptTag)
        noStyle == RemoveBlocks(noScript, StyleTag)
        noTags == RemoveTags(Strip(noStyle))
        content0 == CollapseWhitespace(noTags)
    IN  IF Len(content0) > MAX_CONTENT
        THEN SubSeq(content0, 1, MAX_CONTENT) \o TruncationMarker
        ELSE content0

\* the extraction truncating a text of exactly MAX_CONTENT characters too
extract_text_ge(html) ==
    LET noScript == RemoveBlocks(html, ScriptTag)
        noStyle == RemoveBlocks(noScript, StyleTag)
        noTags == RemoveTags(noStyle)
        content0 == Strip(CollapseWhitespace(noTags))
    IN  IF Len(content0) >= MAX_CONTENT
        THEN SubSeq(content0, 1, MAX_CONTENT) \o TruncationMarker
        ELSE content0

\* lines 507-525: the text extracted from the fetched page
extract_text(html) ==
    LET noScript == RemoveBlocks(html, ScriptTag)
        noStyle == RemoveBlocks(noScript, StyleTag)
        noTags == RemoveTags(noStyle)
        content0 == Strip(CollapseWhitespace(noTags))
    IN  IF Len(content0) > MAX_CONTENT
        THEN SubSeq(content0, 1, MAX_CONTENT) \o TruncationMarker
        ELSE content0

\* pages the fetched URL may return
Pages ==
    { <<"<", "p", ">", "H", "i", "<", "/", "p", ">">>,
      <<"<", "S", "c", "r", "i", "p", "t", ">", "x", "<", "/", "s", "c", "r", "i", "p", "t", ">",
        " ", "o", "k", "\n", " ", "a">> }

\* what requests.get(url, headers, timeout=30) can do: raise a transport
\* error, or return a response with a status code and a body
GetOutcomes ==
    [ exc : {"ConnectionError"}, status_code : {0}, text : {<<>>} ]
      \cup [ exc : {"none"}, status_code : {404}, text : {<<>>} ]
      \cup [ exc : {"none"}, status_code : {200}, text : Pages ]

\* response.raise_for_status(): HTTPError for a 4xx/5xx status
raise_for_status(status_code) == status_code >= 400 /\ status_code < 600

NetCall(svc, url, model, prompt, stream) ==
    [svc |-> svc, url |-> url, model |-> model, prompt |-> prompt, stream |-> stream]
NoPrompt == [source_info |-> "", text |-> NoneStr, system |-> ""]

\* fetch_web_content(url) with the outcome get of its requests.get call:
\* the exception raised (NoExc for a return), the returned content and the
\* network calls made
fetch_web_content(url, get) ==
    LET parsed_url == urlparse(url)
        url2 == IF ~(StartsWith(url, HttpPrefix) \/ StartsWith(url, HttpsPrefix))
                THEN HttpsPrefix \o url ELSE url
        call == <<NetCall("fetch", url2, Null, NoPrompt, FALSE)>>
    IN  IF parsed_url.scheme = <<>> \/ parsed_url.netloc = <<>>
        THEN \* ValueError, caught by 'except Exception'
             [ exc |-> HTTPException(400, <<"Error processing URL: ", "Invalid URL format">>),
               content |-> NoneStr, calls |-> <<>> ]
        ELSE IF get.exc # "none"
        THEN [ exc |-> HTTPException(400, <<"Failed to fetch URL: ", get.exc>>),
               content |-> NoneStr, calls |-> call ]
        ELSE IF raise_for_status(get.status_code)
        THEN [ exc |-> HTTPException(400, <<"Failed to fetch URL: ", "HTTPError ",
                                            ToString(get.status_code)>>),
               content |-> NoneStr, calls |-> call ]
        ELSE [ exc |-> NoExc, content |-> extract_text(get.text), calls |-> call ]

(***************************************************************************)
(* Prompt builder                                                          *)
(***************************************************************************)
\* build_prompt: the fixed template with its two substitutions
build_prompt(text, source_type) ==
    [ source_info |-> IF source_type = "url" THEN "web page content" ELSE "text",
      text |-> text, system |-> "" ]

(***************************************************************************)
(* State                                                                   *)
(***************************************************************************)
VARIABLES
    apiKey,     \* bool(openai.api_key): the hosted credential is configured
    pc,         \* "idle", "responded" (HTTP response complete), "streaming"
    endpoint,   \* the endpoint the request was posted to
    request,    \* the ProcessRequest being handled
    response,   \* status line and body the handler produced
    net,        \* outbound network calls made for the request, in order
    gen,        \* arguments of the stream generator handed to StreamingResponse
    gpc,        \* generator position: "none", "created", "iter", "ended"
    frames,     \* frames the generator has yielded, in order
    reads,      \* items read from the backend stream so far
    ev,         \* the last thing the backend stream delivered to the generator
    caught,     \* the exception the handler's 'except Exception' clause caught
    httpExcStr, \* the installed HTTPException defines __str__
    running,    \* the request whose code occupies the event loop thread, 0 if none
    task,       \* per in-flight request: its kind and where its code stands
    page,       \* response.text of a fetched page, as handed to the text extraction
    content     \* the content the text extraction returned for page, None before

loopVars == <<running, task>>
vars == <<apiKey, pc, endpoint, request, response, net, gen, gpc, frames, reads, ev,
          caught, httpExcStr, running, task, page, content>>

\* str(e).  An HTTPException is built from keyword arguments only, so its
\* args are empty: str(e) is '' unless the installed Starlette defines
\* HTTPException.__str__, which formats it as "<status_code>: <detail>".
StrOf(e) ==
    IF e.type = "HTTPException"
    THEN IF httpExcStr THEN <<ToString(e.status_code), ": ">> \o e.msg ELSE <<>>
    ELSE e.msg

(***************************************************************************)
(* Provider adapters, single-shot                                          *)
(***************************************************************************)
BackendTexts == { <<"o", "k">>, <<" ", "o", "k", "\n">> }

\* openai.ChatCompletion.create(...) without stream: raises, or returns the
\* first choice's message content
CreateOutcomes ==
    [ exc : {"APIError"}, content : {<<>>} ] \cup [ exc : {"none"}, content : BackendTexts ]

\* call_openai without its credential check
call_openai_nocheck(key, prompt, model_name, system_prompt, out) ==
    LET model == IF Truthy(model_name) THEN model_name ELSE "gpt-3.5-turbo"
        system_content == IF Truthy(system_prompt) THEN system_prompt
                          ELSE DEFAULT_SYSTEM_PROMPT
        call == <<NetCall("openai", NoneStr, model,
                          [prompt EXCEPT !.system = system_content], FALSE)>>
    IN  IF out.exc # "none"
        THEN [ exc |-> Exc(out.exc, <<out.exc>>), result |-> NoneStr, calls |-> call ]
        ELSE [ exc |-> NoExc, result |-> Strip(out.content), calls |-> call ]

\* call_openai with the outcome of its backend call
call_openai(key, prompt, model_name, system_prompt, out) ==
    LET model == IF Truthy(model_name) THEN model_name ELSE "gpt-3.5-turbo"
        system_content == IF Truthy(system_prompt) THEN system_prompt
                          ELSE DEFAULT_SYSTEM_PROMPT
        call == <<NetCall("openai", NoneStr, model,
                          [prompt EXCEPT !.system = system_content], FALSE)>>
    IN  IF ~key
        THEN [ exc |-> HTTPException(500, <<"OpenAI API key not configured. ",
                              "Please set OPENAI_API_KEY environment variable.">>),
               result |-> NoneStr, calls |-> <<>> ]
        ELSE IF out.exc # "none"
        THEN [ exc |-> Exc(out.exc, <<out.exc>>), result |-> NoneStr, calls |-> call ]
        ELSE [ exc |-> NoExc, result |-> Strip(out.content), calls |-> call ]

\* requests.post(f"{OLLAMA_BASE_URL}/api/generate", ...): raises a transport
\* error, or returns a status code and a JSON body with or without 'response'
PostOutcomes ==
    [ exc : {"ConnectionError"}, status_code : {0}, has_response : {FALSE}, response : {<<>>} ]
      \cup [ exc : {"none"}, status_code : {500}, has_response : {FALSE}, response : {<<>>} ]
      \cup [ exc : {"none"}, status_code : {200}, has_response : {FALSE}, response : {<<>>} ]
      \cup [ exc : {"none"}, status_code : {200}, has_response : {TRUE}, response : BackendTexts ]

\* call_ollama posting a second time when the first post fails
call_ollama_retry(prompt, model_name, system_prompt, out) ==
    LET model == IF Truthy(model_name) THEN model_name ELSE "llama2"
        system_content == IF Truthy(system_prompt) THEN system_prompt
                          ELSE DEFAULT_SYSTEM_PROMPT
        call == <<NetCall("ollama", NoneStr, model,
                          [prompt EXCEPT !.system = system_content], FALSE)>>
    IN  IF out.exc # "none"
        THEN [ exc |-> Exc("Exception", <<"Failed to connect to Ollama at ",
                                          "OLLAMA_BASE_URL", ": ", out.exc>>),
               result |-> NoneStr, calls |-> call \o call ]
        ELSE IF out.status_code # 200
        THEN [ exc |-> Exc("Exception", <<"Ollama API error: ", "Ollama API error: ",
                                          ToString(out.status_code), " - ", "response.text">>),
               result |-> NoneStr, calls |-> call \o call ]
        ELSE [ exc |-> NoExc,
               result |-> Strip(IF out.has_response THEN out.response ELSE <<>>),
               calls |-> call ]

\* call_ollama sending its default model whatever the request names
call_ollama_default_model(prompt, model_name, system_prompt, out) ==
    LET system_content == IF Truthy(system_prompt) THEN system_prompt
                          ELSE DEFAULT_SYSTEM_PROMPT
        call == <<NetCall("ollama", NoneStr, "llama2",
                          [prompt EXCEPT !.system = system_content], FALSE)>>
    IN  IF out.exc # "none"
        THEN [ exc |-> Exc("Exception", <<"Failed to connect to Ollama at ",
                                          "OLLAMA_BASE_URL", ": ", out.exc>>),
               result |-> NoneStr, calls |-> call ]
        ELSE IF out.status_code # 200
        THEN [ exc |-> Exc("Exception", <<"Ollama API error: ", "Ollama API error: ",
                                          ToString(out.status_code), " - ", "response.text">>),
               result |-> NoneStr, calls |-> call ]
        ELSE [ exc |-> NoExc,
               result |-> Strip(IF out.has_response THEN out.response ELSE <<>>),
               calls |-> call ]

\* call_ollama with the outcome of its backend call
call_ollama(prompt, model_name, system_prompt, out) ==
    LET model == IF Truthy(model_name) THEN model_name ELSE "llama2"
        system_content == IF Truthy(system_prompt) THEN system_prompt
                          ELSE DEFAULT_SYSTEM_PROMPT
        call == <<NetCall("ollama", NoneStr, model,
                          [prompt EXCEPT !.system = system_content], FALSE)>>
    IN  IF out.exc # "none"
        THEN \* except requests.exceptions.RequestException
             [ exc |-> Exc("Exception", <<"Failed to connect to Ollama at ",
                                          "OLLAMA_BASE_URL", ": ", out.exc>>),
               result |-> NoneStr, calls |-> call ]
        ELSE IF out.status_code # 200
        THEN \* raised inside the try, re-wrapped by 'except Exception'
             [ exc |-> Exc("Exception", <<"Ollama API error: ", "Ollama API error: ",
                                          ToString(out.status_code), " - ", "response.text">>),
               result |-> NoneStr, calls |-> call ]
        ELSE [ exc |-> NoExc,
               result |-> Strip(IF out.has_response THEN out.response ELSE <<>>),
               calls |-> call ]

(***************************************************************************)
(* Endpoint handlers                                                       *)
(***************************************************************************)
NoBody ==
    [ success |-> FALSE, result |-> NoneStr, model_used |-> <<>>,
      source_type |-> "", source |-> NoneStr ]
NoResponse == [ status_code |-> 0, detail |-> <<>>, body |-> NoBody ]
ErrorResponse(e) == [ status_code |-> e.status_code, detail |-> e.msg, body |-> NoBody ]

NoRequest ==
    [ text |-> NoneStr, url |-> NoneStr, model_provider |-> Null,
      model_name |-> Null, system_prompt |-> Null ]
NoGen ==
    [ fn |-> "none", prompt |-> NoPrompt, model_name |-> Null, source_type |-> "",
      source |-> NoneStr, system_prompt |-> Null ]
NoEvent == [ kind |-> "none", item |-> "none" ]

\* the source of the input for /process, shortening a text of exactly
\* PreviewLen characters too
resolve_process_preview_ge(req, get) ==
    IF TruthyStr(req.url)
    THEN LET f == fetch_web_content(req.url, get)
         IN  [ exc |-> f.exc, source_type |-> "url", source_text |-> f.content,
               source |-> req.url, calls |-> f.calls ]
    ELSE IF TruthyStr(req.text)
    THEN [ exc |-> NoExc, source_type |-> "text", source_text |-> req.text,
           source |-> IF Len(req.text) >= PreviewLen
                      THEN SubSeq(req.text, 1, PreviewLen) \o Ellipsis ELSE req.text,
           calls |-> <<>> ]
    ELSE [ exc |-> HTTPException(400,
                     <<"Either 'text' or 'url' must be provided for processing.">>),
           source_type |-> "", source_text |-> NoneStr, source |-> NoneStr,
           calls |-> <<>> ]

\* lines 307-320: the source of the input, for /process
resolve_process(req, get) ==
    IF TruthyStr(req.url)
    THEN LET f == fetch_web_content(req.url, get)
         IN  [ exc |-> f.exc, source_type |-> "url", source_text |-> f.content,
               source |-> req.url, calls |-> f.calls ]
    ELSE IF TruthyStr(req.text)
    THEN [ exc |-> NoExc, source_type |-> "text", source_text |-> req.text,
           source |-> IF Len(req.text) > PreviewLen
                      THEN SubSeq(req.text, 1, PreviewLen) \o Ellipsis ELSE req.text,
           calls |-> <<>> ]
    ELSE [ exc |-> HTTPException(400,
                     <<"Either 'text' or 'url' must be provided for processing.">>),
           source_type |-> "", source_text |-> NoneStr, source |-> NoneStr,
           calls |-> <<>> ]

\* the source of the input for /process-stream, with 'request.text is not
\* None' in place of the truthiness test
resolve_stream_text_not_none(req, get) ==
    IF TruthyStr(req.url)
    THEN LET f == fetch_web_content(req.url, get)
         IN  [ exc |-> f.exc, source_type |-> "url", source_text |-> f.content,
               source |-> req.url, calls |-> f.calls ]
    ELSE IF req.text # NoneStr
    THEN [ exc |-> NoExc, source_type |-> "text", source_text |-> req.text,
           source |-> IF Len(req.text) > PreviewLen
                      THEN SubSeq(req.text, 1, PreviewLen) \o Ellipsis ELSE req.text,
           calls |-> <<>> ]
    ELSE [ exc |-> HTTPException(400,
                     <<"Either 'text' or 'url' must be provided for processing.">>),
           source_type |-> "", source_text |-> NoneStr, source |-> NoneStr,
           calls |-> <<>> ]

\* lines 360-373: the source of the input, for /process-stream
resolve_stream(req, get) ==
    IF TruthyStr(req.url)
    THEN LET f == fetch_web_content(req.url, get)
         IN  [ exc |-> f.exc, source_type |-> "url", source_text |-> f.content,
               source |-> req.url, calls |-> f.calls ]
    ELSE IF TruthyStr(req.text)
    THEN [ exc |-> NoExc, source_type |-> "text", source_text |-> req.text,
           source |-> IF Len(req.text) > PreviewLen
                      THEN SubSeq(req.text, 1, PreviewLen) \o Ellipsis ELSE req.text,
           calls |-> <<>> ]
    ELSE [ exc |-> HTTPException(400,
                     <<"Either 'text' or 'url' must be provided for processing.">>),
           source_type |-> "", source_text |-> NoneStr, source |-> NoneStr,
           calls |-> <<>> ]

\* the 'except Exception as e' clause of both handlers
handler_except(e) ==
    HTTPException(500, <<"AI processing failed: ">> \o StrOf(e))

\* the provider selection sending every tag but 'openai' to the local adapter
call_backend_openai_only(key, req, prompt, co, po) ==
    IF req.model_provider # "openai"
    THEN LET c == call_ollama(prompt, req.model_name, req.system_prompt, po)
         IN  [ exc |-> c.exc, result |-> c.result, calls |-> c.calls,
               model_used |-> <<"ollama", ":",
                   IF Truthy(req.model_name) THEN req.model_name ELSE "llama2">> ]
    ELSE LET c == call_openai(key, prompt, req.model_name, req.system_prompt, co)
         IN  [ exc |-> c.exc, result |-> c.result, calls |-> c.calls,
               model_used |-> <<"openai", ":",
                   IF Truthy(req.model_name) THEN req.model_name ELSE "gpt-3.5-turbo">> ]

\* lines 325-331: the provider selection, the single-shot call and the
\* model_used value
call_backend(key, req, prompt, co, po) ==
    IF req.model_provider = "ollama"
    THEN LET c == call_ollama(prompt, req.model_name, req.system_prompt, po)
         IN  [ exc |-> c.exc, result |-> c.result, calls |-> c.calls,
               model_used |-> <<"ollama", ":",
                   IF Truthy(req.model_name) THEN req.model_name ELSE "llama2">> ]
    ELSE LET c == call_openai(key, prompt, req.model_name, req.system_prompt, co)
         IN  [ exc |-> c.exc, result |-> c.result, calls |-> c.calls,
               model_used |-> <<"openai", ":",
                   IF Truthy(req.model_name) THEN req.model_name ELSE "gpt-3.5-turbo">> ]

\* POST /process: the whole handler, with the outcomes of the network calls
\* it may make
process_with_ai ==
    /\ pc = "idle"
    /\ \E req \in ProcessRequest, get \in GetOutcomes :
         \E r \in {resolve_process(req, get)} :
            /\ request' = req
            /\ endpoint' = "/process"
            /\ IF r.exc # NoExc
               THEN /\ response' = ErrorResponse(handler_except(r.exc))
                    /\ caught' = r.exc
                    /\ net' = net \o r.calls
               ELSE \E co \in CreateOutcomes, po \in PostOutcomes :
                      \E b \in {call_backend(apiKey, req,
                                   build_prompt(r.source_text, r.source_type), co, po)} :
                         /\ net' = net \o r.calls \o b.calls
                         /\ caught' = b.exc
                         /\ IF b.exc # NoExc
                            THEN response' = ErrorResponse(handler_except(b.exc))
                            ELSE response' =
                                   [ status_code |-> 200, detail |-> <<>>,
                                     body |-> [ success |-> TRUE, result |-> b.result,
                                                model_used |-> b.model_used,
                                                source_type |-> r.source_type,
                                                source |-> r.source ] ]
    /\ pc' = "responded"
    /\ UNCHANGED <<apiKey, gen, gpc, frames, reads, ev, httpExcStr, running, task, page, content>>

\* POST /process-stream: the whole handler; on success it hands the
\* generator, not yet started, to StreamingResponse
process_with_ai_stream ==
    /\ pc = "idle"
    /\ \E req \in ProcessRequest, get \in GetOutcomes :
         LET r == resolve_stream(req, get)
             prompt == build_prompt(r.source_text, r.source_type)
         IN  /\ request' = req
             /\ endpoint' = "/process-stream"
             /\ net' = net \o r.calls
             /\ IF r.exc # NoExc
                THEN /\ response' = ErrorResponse(handler_except(r.exc))
                     /\ caught' = r.exc
                     /\ pc' = "responded"
                     /\ UNCHANGED <<gen, gpc>>
                ELSE /\ response' = [NoResponse EXCEPT !.status_code = 200]
                     /\ caught' = NoExc
                     /\ pc' = "streaming"
                     /\ gen' = [ fn |-> IF req.model_provider = "ollama"
                                        THEN "stream_ollama_response"
                                        ELSE "stream_openai_response",
                                 prompt |-> prompt, model_name |-> req.model_name,
                                 source_type |-> r.source_type, source |-> r.source,
                                 system_prompt |-> req.system_prompt ]
                     /\ gpc' = "created"
    /\ UNCHANGED <<apiKey, frames, reads, ev, httpExcStr, running, task, page, content>>

(***************************************************************************)
(* Stream frames: the JSON object of one 'data: <json>\n\n' frame          *)
(***************************************************************************)
ChunkFrame(text, done) == [ chunk |-> text, done |-> done ]
DoneFrame(model_used, source_type, source) ==
    [ done |-> TRUE, processing_time |-> "elapsed", model_used |-> model_used,
      source_type |-> source_type, source |-> source ]
ErrorFrame(msg) == [ error |-> msg ]

IsChunk(f) == "chunk" \in DOMAIN f
IsError(f) == "error" \in DOMAIN f
IsDone(f) == "processing_time" \in DOMAIN f
IsTerminal(f) == IsDone(f) \/ IsError(f)

(***************************************************************************)
(* Local-inference streaming: stream_ollama_response                       *)
(***************************************************************************)
\* One line of the backend's response body, as iter_lines() delivers it:
\*   kind "empty"     b''                      (skipped by 'if line')
\*   kind "bad_utf8"  bytes that do not decode as UTF-8
\*   kind "bad_json"  text that is not JSON
\*   kind "number"    JSON that is not an object
\*   kind "object"    a JSON object, with or without 'response' and 'done'
Line(kind, has_resp, is_str, resp, has_done, done) ==
    [ kind |-> kind, has_response |-> has_resp,
      response_is_str |-> is_str, response |-> resp,
      has_done |-> has_done, done |-> done ]
RawLine(kind) == Line(kind, FALSE, FALSE, "", FALSE, FALSE)
ObjectLine(has_resp, is_str, resp, has_done, done) ==
    Line("object", has_resp, is_str, resp, has_done, done)

Lines ==
    { RawLine("empty"), RawLine("bad_utf8"), RawLine("bad_json"), RawLine("number"),
      ObjectLine(TRUE, TRUE, "Hi", TRUE, FALSE),
      ObjectLine(TRUE, TRUE, " there", TRUE, TRUE),
      ObjectLine(TRUE, TRUE, " there", FALSE, FALSE),
      ObjectLine(FALSE, FALSE, "", TRUE, TRUE),
      ObjectLine(FALSE, FALSE, "", FALSE, FALSE),
      ObjectLine(TRUE, FALSE, "7", TRUE, FALSE) }

\* data.get('done', False)
GetDone(data) == IF data.has_done THEN data.done ELSE FALSE

\* the loop body without the 'break' after the Done frame
ollama_line_no_break(line, model, source_type, source) ==
    LET go(fs, how, e) == [ frames |-> fs, how |-> how, exc |-> e ]
    IN  IF line.kind = "empty" THEN go(<<>>, "continue", NoExc)
        ELSE IF line.kind = "bad_utf8"
        THEN go(<<>>, "raise", Exc("UnicodeDecodeError", <<"'utf-8' codec can't decode">>))
        ELSE IF line.kind = "bad_json" THEN go(<<>>, "continue", NoExc)
        ELSE IF line.kind # "object"
        THEN go(<<>>, "raise", Exc("TypeError", <<"argument is not iterable">>))
        ELSE IF line.has_response /\ ~line.response_is_str
        THEN go(<<>>, "raise", Exc("TypeError", <<"can only concatenate str">>))
        ELSE LET chunk == IF line.has_response
                          THEN <<ChunkFrame(line.response, GetDone(line))>> ELSE <<>>
             IN  IF GetDone(line)
                 THEN go(chunk \o <<DoneFrame(<<"ollama", ":", model>>, source_type, source)>>,
                         "continue", NoExc)
                 ELSE go(chunk, "continue", NoExc)

\* Body of the 'for line in response.iter_lines()' loop for one line:
\* the frames it yields and how it leaves: "continue" (next line), "break",
\* or "raise" with the exception that escapes the loop.
ollama_line(line, model, source_type, source) ==
    LET go(fs, how, e) == [ frames |-> fs, how |-> how, exc |-> e ]
    IN  IF line.kind = "empty" THEN go(<<>>, "continue", NoExc)
        ELSE IF line.kind = "bad_utf8"
        THEN go(<<>>, "raise", Exc("UnicodeDecodeError", <<"'utf-8' codec can't decode">>))
        ELSE IF line.kind = "bad_json" THEN go(<<>>, "continue", NoExc)
        ELSE IF line.kind # "object"
        THEN go(<<>>, "raise", Exc("TypeError", <<"argument is not iterable">>))
        ELSE IF line.has_response /\ ~line.response_is_str
        THEN go(<<>>, "raise", Exc("TypeError", <<"can only concatenate str">>))
        ELSE LET chunk == IF line.has_response
                          THEN <<ChunkFrame(line.response, GetDone(line))>> ELSE <<>>
             IN  IF GetDone(line)
                 THEN go(chunk \o <<DoneFrame(<<"ollama", ":", model>>, source_type, source)>>,
                         "break", NoExc)
                 ELSE go(chunk, "continue", NoExc)

\* the two except clauses of stream_ollama_response
ollama_except(e) ==
    IF IsRequestException(e)
    THEN ErrorFrame(<<"Failed to connect to Ollama: ">> \o StrOf(e))
    ELSE ErrorFrame(<<"Ollama API error: ">> \o StrOf(e))

\* requests.post(..., stream=True): raises, or returns the status line
PostStreamOutcomes ==
    [ exc : {"ConnectionError"}, status_code : {0} ]
      \cup [ exc : {"none"}, status_code : {200, 500} ]

\* first resumption, up to the start of the line loop
stream_ollama_start ==
    /\ pc = "streaming" /\ gpc = "created" /\ gen.fn = "stream_ollama_response"
    /\ \E out \in PostStreamOutcomes :
         LET model == IF Truthy(gen.model_name) THEN gen.model_name ELSE "llama2"
             system_content == IF Truthy(gen.system_prompt) THEN gen.system_prompt
                               ELSE DEFAULT_SYSTEM_PROMPT
         IN  /\ net' = Append(net, NetCall("ollama", NoneStr, model,
                                   [gen.prompt EXCEPT !.system = system_content], TRUE))
             /\ IF out.exc # "none"
                THEN /\ frames' = Append(frames, ollama_except(Exc(out.exc, <<out.exc>>)))
                     /\ gpc' = "ended"
                     /\ ev' = [kind |-> "exc", item |-> out.exc]
                ELSE IF out.status_code # 200
                THEN /\ frames' = Append(frames,
                            ErrorFrame(<<"Ollama API error: ", ToString(out.status_code)>>))
                     /\ gpc' = "ended"
                     /\ ev' = [kind |-> "status", item |-> ToString(out.status_code)]
                ELSE /\ frames' = frames
                     /\ gpc' = "iter"
                     /\ ev' = [kind |-> "status", item |-> ToString(out.status_code)]
    /\ UNCHANGED <<apiKey, pc, endpoint, request, response, gen, reads, caught, httpExcStr, running, task, page, content>>

\* one step of 'for line in response.iter_lines()': the body delivers a line,
\* ends, or the transport fails
stream_ollama_line ==
    /\ pc = "streaming" /\ gpc = "iter" /\ gen.fn = "stream_ollama_response"
    /\ LET model == IF Truthy(gen.model_name) THEN gen.model_name ELSE "llama2"
       IN  \/ \E line \in Lines :
                LET r == ollama_line(line, model, gen.source_type, gen.source)
                IN  /\ reads < MaxReads
                    /\ reads' = reads + 1
                    /\ ev' = [kind |-> "line", item |-> line]
                    /\ IF r.how = "raise"
                       THEN /\ frames' = frames \o r.frames \o <<ollama_except(r.exc)>>
                            /\ gpc' = "ended"
                       ELSE /\ frames' = frames \o r.frames
                            /\ gpc' = IF r.how = "break" THEN "ended" ELSE "iter"
           \/ \* the response body is exhausted
              /\ ev' = [kind |-> "eof", item |-> "eof"]
              /\ gpc' = "ended"
              /\ UNCHANGED <<frames, reads>>
           \/ \E t \in {"ChunkedEncodingError", "ConnectionError"} :
                /\ ev' = [kind |-> "exc", item |-> t]
                /\ frames' = Append(frames, ollama_except(Exc(t, <<t>>)))
                /\ gpc' = "ended"
                /\ UNCHANGED reads
    /\ UNCHANGED <<apiKey, pc, endpoint, request, response, net, gen, caught, httpExcStr, running, task, page, content>>

(***************************************************************************)
(* Hosted streaming: stream_openai_response                                *)
(***************************************************************************)
\* One item of the backend's delta stream: chunk.choices[0].delta either has
\* a content attribute (None, '' or text) or reading it raises
Deltas ==
    { [ has_content |-> FALSE, content |-> Null ],
      [ has_content |-> TRUE, content |-> Null ],
      [ has_content |-> TRUE, content |-> "" ],
      [ has_content |-> TRUE, content |-> "Hi" ],
      [ has_content |-> TRUE, content |-> " there" ] }

\* body of 'for chunk in response' for one delta
openai_delta(d) ==
    IF ~d.has_content
    THEN [ frames |-> <<>>, exc |-> Exc("AttributeError", <<"content">>) ]
    ELSE IF Truthy(d.content)
    THEN [ frames |-> <<ChunkFrame(d.content, FALSE)>>, exc |-> NoExc ]
    ELSE [ frames |-> <<>>, exc |-> NoExc ]

\* the except clause with the exception's message left out
openai_except_no_message(e) == ErrorFrame(<<"OpenAI API error">>)

openai_except(e) == ErrorFrame(<<"OpenAI API error: ">> \o StrOf(e))

\* first resumption: the credential check and the create(stream=True) call
stream_openai_start ==
    /\ pc = "streaming" /\ gpc = "created" /\ gen.fn = "stream_openai_response"
    /\ IF ~apiKey
       THEN /\ frames' = Append(frames, ErrorFrame(<<"OpenAI API key not configured">>))
            /\ gpc' = "ended"
            /\ UNCHANGED <<net, ev>>
       ELSE \E out \in {"none", "APIError"} :
              LET model == IF Truthy(gen.model_name) THEN gen.model_name
                           ELSE "gpt-3.5-turbo"
                  system_content == IF Truthy(gen.system_prompt) THEN gen.system_prompt
                                    ELSE DEFAULT_SYSTEM_PROMPT
              IN  /\ net' = Append(net, NetCall("openai", NoneStr, model,
                                     [gen.prompt EXCEPT !.system = system_content], TRUE))
                  /\ IF out # "none"
                     THEN /\ frames' = Append(frames, openai_except(Exc(out, <<out>>)))
                          /\ gpc' = "ended"
                          /\ ev' = [kind |-> "exc", item |-> out]
                     ELSE /\ frames' = frames
                          /\ gpc' = "iter"
                          /\ ev' = [kind |-> "status", item |-> "200"]
    /\ UNCHANGED <<apiKey, pc, endpoint, request, response, gen, reads, caught, httpExcStr, running, task, page, content>>

\* one step of 'for chunk in response': a delta arrives, the backend signals
\* completion, or the iteration raises
stream_openai_delta ==
    /\ pc = "streaming" /\ gpc = "iter" /\ gen.fn = "stream_openai_response"
    /\ LET model == IF Truthy(gen.model_name) THEN gen.model_name ELSE "gpt-3.5-turbo"
       IN  \/ \E d \in Deltas :
                LET r == openai_delta(d)
                IN  /\ reads < MaxReads
                    /\ reads' = reads + 1
                    /\ ev' = [kind |-> "delta", item |-> d]
                    /\ IF r.exc # NoExc
                       THEN /\ frames' = Append(frames, openai_except(r.exc))
                            /\ gpc' = "ended"
                       ELSE /\ frames' = frames \o r.frames
                            /\ gpc' = "iter"
           \/ \* the delta stream is exhausted
              /\ ev' = [kind |-> "eof", item |-> "eof"]
              /\ frames' = Append(frames,
                     DoneFrame(<<"openai", ":", model>>, gen.source_type, gen.source))
              /\ gpc' = "ended"
              /\ UNCHANGED reads
           \/ \E t \in {"APIConnectionError"} :
                /\ ev' = [kind |-> "exc", item |-> t]
                /\ frames' = Append(frames, openai_except(Exc(t, <<t>>)))
                /\ gpc' = "ended"
                /\ UNCHANGED reads
    /\ UNCHANGED <<apiKey, pc, endpoint, request, response, net, gen, caught, httpExcStr, running, task, page, content>>

(***************************************************************************)
(* Specification of one request                                            *)
(***************************************************************************)
Init ==
    /\ apiKey \in BOOLEAN
    /\ pc = "idle"
    /\ endpoint = ""
    /\ request = NoRequest
    /\ response = NoResponse
    /\ net = <<>>
    /\ gen = NoGen
    /\ gpc = "none"
    /\ frames = <<>>
    /\ reads = 0
    /\ ev = NoEvent
    /\ caught = NoExc
    /\ httpExcStr \in BOOLEAN
    /\ running = 0
    /\ task = <<>>
    /\ page = <<>>
    /\ content = NoneStr

Next ==
    \/ process_with_ai
    \/ process_with_ai_stream
    \/ stream_ollama_start
    \/ stream_ollama_line
    \/ stream_openai_start
    \/ stream_openai_delta

Spec == Init /\ [][Next]_vars

(***************************************************************************)
(* Properties of the stream generators                                     *)
(***************************************************************************)
Last(seq) == seq[Len(seq)]
HasDoneTrue(f) == "done" \in DOMAIN f /\ f.done = TRUE
IsOllamaStream == gen.fn = "stream_ollama_response"
IsOpenaiStream == gen.fn = "stream_openai_response"

\* C1: in both streaming adapters, whatever the backend does, a terminal
\* frame (Done or Error) is the last frame: there is at most one of them and
\* no frame of any kind follows it.
C1_TerminalIsLast ==
    \A i \in 1..Len(frames) : IsTerminal(frames[i]) => i = Len(frames)

C1_Witness ==
    /\ gpc = "ended" /\ Len(frames) >= 3
    /\ IsDone(Last(frames)) /\ IsChunk(frames[1])

\* C2: a stream that has ended has emitted a terminal frame as its last
\* frame.
C2_EndedHasTerminal ==
    gpc = "ended" => (frames # <<>> /\ IsTerminal(Last(frames)))

\* C7: in local-inference streaming every Chunk frame has done = false, and
\* the only frame with done = true is the Done frame, whose model_used starts
\* with the tag 'ollama'.
C7_ChunkShape ==
    IsOllamaStream =>
        \A i \in 1..Len(frames) :
            /\ IsChunk(frames[i]) => frames[i].done = FALSE
            /\ HasDoneTrue(frames[i]) =>
                   (IsDone(frames[i]) /\ frames[i].model_used[1] = "ollama")

\* a line that does not decode into a JSON object
Malformed(line) == line.kind \in {"bad_utf8", "bad_json", "number"}

\* C8: in local-inference streaming a malformed line is skipped: reading it
\* yields no frame and the generator goes on to the next line.
C8_MalformedSkipped ==
    [][ (IsOllamaStream /\ reads' = reads + 1 /\ Malformed(ev'.item))
            => (frames' = frames /\ gpc' = "iter") ]_vars

\* the step in which the backend stream fails under the generator
BackendFails ==
    /\ gpc \in {"created", "iter"} /\ gpc' = "ended"
    /\ \/ ev'.kind = "exc"
       \/ IsOpenaiStream /\ ev'.kind = "delta" /\ ~ev'.item.has_content
FailureMessage(e) == IF e.kind = "exc" THEN e.item ELSE "content"

\* C9: when the backend fails after k >= 0 Chunk frames, those k frames stay
\* as they are and exactly one Error frame carrying the failure message is
\* appended; there is no Done frame.
C9_FailureKeepsChunks ==
    [][ BackendFails =>
          /\ Len(frames') = Len(frames) + 1
          /\ SubSeq(frames', 1, Len(frames)) = frames
          /\ \A i \in 1..Len(frames) : IsChunk(frames[i])
          /\ IsError(Last(frames'))
          /\ Last(Last(frames').error) = FailureMessage(ev') ]_vars

C9_Witness ==
    /\ gpc = "ended" /\ ev.kind = "exc"
    /\ Len(frames) >= 3 /\ IsError(Last(frames)) /\ IsChunk(frames[1])

(***************************************************************************)
(* Properties of the endpoint handlers                                     *)
(***************************************************************************)
NoUsableInput(req) == ~TruthyStr(req.url) /\ ~TruthyStr(req.text)
InvalidUrl(req) ==
    /\ TruthyStr(req.url)
    /\ (urlparse(req.url).scheme = <<>> \/ urlparse(req.url).netloc = <<>>)
\* a url with no scheme at all: a bare host+path string
BareHostPath(url) ==
    TruthyStr(url) /\ urlparse(url).scheme = <<>> /\ url[1] # "/"

\* C3: a request with neither text nor url set, or both empty, fails on both
\* endpoints and no network call of any kind is made while handling it.
C3_NoInputNoNetwork ==
    (pc # "idle" /\ NoUsableInput(request)) =>
        /\ pc = "responded" /\ response.status_code >= 400
        /\ net = <<>>
        /\ gpc = "none" /\ frames = <<>>

C3_Witness ==
    /\ pc = "responded" /\ endpoint = "/process-stream"
    /\ request.text = <<>> /\ request.url = <<>>
    /\ request.model_provider = "ollama"

\* C4: missing or invalid input is reported as a failure in the 4xx class on
\* both endpoints, not as a 5xx failure.
C4_InvalidInputIs4xx ==
    (pc = "responded" /\ (NoUsableInput(request) \/ InvalidUrl(request))) =>
        response.status_code \in 400..499

\* C5: a url with no scheme at all gets https:// prepended and is then
\* fetched.
C5_BareUrlIsFetched ==
    (pc # "idle" /\ BareHostPath(request.url)) =>
        /\ net # <<>>
        /\ net[1].svc = "fetch"
        /\ net[1].url = HttpsPrefix \o request.url

NotConfigured ==
    HTTPException(500, <<"OpenAI API key not configured. ",
                         "Please set OPENAI_API_KEY environment variable.">>)
\* the resolver raised: the handler never reached the adapter
ResolverFailed == caught.type = "HTTPException" /\ caught.status_code = 400

\* C6: without the hosted credential, call_openai fails at once with the
\* NotConfigured failure and stream_openai_response yields exactly one frame,
\* an Error frame, and ends; no request goes to the hosted backend and no
\* Chunk or Done frame is produced.
C6_NotConfigured ==
    (~apiKey /\ pc # "idle" /\ request.model_provider # "ollama") =>
        /\ \A i \in 1..Len(net) : net[i].svc # "openai"
        /\ endpoint = "/process" =>
              /\ response.status_code >= 400
              /\ ~ResolverFailed => caught = NotConfigured
        /\ (endpoint = "/process-stream" /\ gpc = "created") => frames = <<>>
        /\ (endpoint = "/process-stream" /\ gpc \notin {"none", "created"}) =>
              /\ gpc = "ended"
              /\ frames = <<ErrorFrame(<<"OpenAI API key not configured">>)>>

C6_Witness ==
    /\ ~apiKey /\ endpoint = "/process-stream" /\ gpc = "ended"
    /\ IsOpenaiStream /\ Len(frames) = 1 /\ IsError(frames[1])

\* the single-shot case of C6: call_openai raised NotConfigured
C6_WitnessSingleShot ==
    /\ ~apiKey /\ endpoint = "/process" /\ pc = "responded"
    /\ caught = NotConfigured

(***************************************************************************)
(* The event loop: several requests in flight in one process               *)
(*                                                                         *)
(* uvicorn runs the app on one event loop thread.  A handler or generator  *)
(* that has been given the thread keeps it until it finishes or reaches a  *)
(* point where it suspends.  The handlers are 'async def', but every I/O   *)
(* call they make (requests.get, requests.post, iter_lines,                *)
(* openai.ChatCompletion.create and the iteration over its result) is a    *)
(* synchronous call: the thread stays with the caller until the call       *)
(* returns.  The only suspensions are the return of the handler and the    *)
(* 'yield' of a frame, where StreamingResponse sends the frame.            *)
(***************************************************************************)
NumRequests == 2
Requests == 1..NumRequests

TaskKinds ==
    [ endpoint : {"/process", "/process-stream"}, source : {"none", "text", "url"},
      provider : {"openai", "ollama"} ]

\* positions in which the code waits inside a synchronous I/O call
IOPositions == {"fetch_io", "call_io", "post_io", "read_io"}
\* positions in which the code is off the thread and ready to be run
ReadyPositions == {"queued", "gen_created", "gen_yielded", "gen_chunk_of_done", "gen_final"}

InIO(r) == task[r].at \in IOPositions
Runnable(r) == task[r].at \in ReadyPositions

At(r, pos) == [task EXCEPT ![r].at = pos]

\* the handler from the prompt building on: the single-shot call, or the
\* return of the StreamingResponse
backend_stage(r) ==
    IF task[r].kind.endpoint = "/process"
    THEN IF task[r].kind.provider = "openai" /\ ~apiKey
         THEN /\ task' = At(r, "done") /\ running' = 0
         ELSE /\ task' = At(r, "call_io") /\ running' = r
    ELSE /\ task' = At(r, "gen_created") /\ running' = 0

\* the loop gives the thread to the handler of a request: it runs to its
\* first I/O call, to its return or to the exception it raises
handler_runs(r) ==
    /\ running = 0 /\ task[r].at = "queued"
    /\ IF task[r].kind.source = "none"
       THEN /\ task' = At(r, "done") /\ running' = 0
       ELSE IF task[r].kind.source = "url"
       THEN /\ task' = At(r, "fetch_io") /\ running' = r
       ELSE backend_stage(r)
    /\ UNCHANGED <<apiKey, pc, endpoint, request, response, net, gen, gpc, frames,
                   reads, ev, caught, httpExcStr, page, content>>

\* requests.get in fetch_web_content returns or raises
fetch_returns(r) ==
    /\ running = r /\ task[r].at = "fetch_io"
    /\ \E ok \in BOOLEAN :
         IF ok THEN backend_stage(r)
         ELSE /\ task' = At(r, "done") /\ running' = 0
    /\ UNCHANGED <<apiKey, pc, endpoint, request, response, net, gen, gpc, frames,
                   reads, ev, caught, httpExcStr, page, content>>

\* the single-shot backend call returns or raises; the handler responds
call_returns(r) ==
    /\ running = r /\ task[r].at = "call_io"
    /\ task' = At(r, "done") /\ running' = 0
    /\ UNCHANGED <<apiKey, pc, endpoint, request, response, net, gen, gpc, frames,
                   reads, ev, caught, httpExcStr, page, content>>

\* StreamingResponse resumes the generator of a request: it runs to its next
\* I/O call, to its next yield or to its end
generator_resumes(r) ==
    /\ running = 0
    /\ \/ /\ task[r].at = "gen_created"
          /\ IF task[r].kind.provider = "openai" /\ ~apiKey
             THEN /\ task' = At(r, "gen_final") /\ running' = 0
             ELSE /\ task' = At(r, "post_io") /\ running' = r
       \/ /\ task[r].at = "gen_yielded"
          /\ task' = At(r, "read_io") /\ running' = r
       \/ /\ task[r].at = "gen_chunk_of_done"
          /\ task' = At(r, "gen_final") /\ running' = 0
       \/ /\ task[r].at = "gen_final"
          /\ task' = At(r, "done") /\ running' = 0
    /\ UNCHANGED <<apiKey, pc, endpoint, request, response, net, gen, gpc, frames,
                   reads, ev, caught, httpExcStr, page, content>>

\* the streaming request to the backend returns or raises
post_returns(r) ==
    /\ running = r /\ task[r].at = "post_io"
    /\ \E ok \in BOOLEAN :
         IF ok THEN /\ task' = At(r, "read_io") /\ running' = r
         ELSE /\ task' = At(r, "gen_final") /\ running' = 0
    /\ UNCHANGED <<apiKey, pc, endpoint, request, response, net, gen, gpc, frames,
                   reads, ev, caught, httpExcStr, page, content>>

\* the read of the next line or delta returns: an item that yields a Chunk,
\* an item that is skipped, the line that reports done (local variant), the
\* end of the stream, or an error
read_returns(r) ==
    /\ running = r /\ task[r].at = "read_io"
    /\ \/ /\ task[r].reads < MaxReads
          /\ task' = [task EXCEPT ![r].at = "gen_yielded", ![r].reads = @ + 1]
          /\ running' = 0
       \/ /\ task[r].reads < MaxReads
          /\ task' = [task EXCEPT ![r].reads = @ + 1]
          /\ running' = r
       \/ /\ task[r].kind.provider = "ollama"
          /\ task' = At(r, "gen_chunk_of_done") /\ running' = 0
       \/ /\ task' = At(r, IF task[r].kind.provider = "ollama" THEN "done" ELSE "gen_final")
          /\ running' = 0
       \/ /\ task' = At(r, "gen_final") /\ running' = 0
    /\ UNCHANGED <<apiKey, pc, endpoint, request, response, net, gen, gpc, frames,
                   reads, ev, caught, httpExcStr, page, content>>

InitLoop ==
    /\ apiKey \in BOOLEAN
    /\ pc = "idle"
    /\ endpoint = ""
    /\ request = NoRequest
    /\ response = NoResponse
    /\ net = <<>>
    /\ gen = NoGen
    /\ gpc = "none"
    /\ frames = <<>>
    /\ reads = 0
    /\ ev = NoEvent
    /\ caught = NoExc
    /\ httpExcStr = TRUE
    /\ running = 0
    /\ task \in [Requests -> [kind : TaskKinds, at : {"queued"}, reads : {0}]]
    /\ page = <<>>
    /\ content = NoneStr

NextLoop ==
    \E r \in Requests :
        \/ handler_runs(r)
        \/ fetch_returns(r)
        \/ call_returns(r)
        \/ generator_resumes(r)
        \/ post_returns(r)
        \/ read_returns(r)

SpecLoop == InitLoop /\ [][NextLoop]_vars

\* C10: while one request waits inside an I/O call, any other request that
\* is ready to run can be given the thread.
C10_IOWaitIsSuspensionPoint ==
    \A r \in Requests, q \in Requests :
        (r # q /\ InIO(r) /\ Runnable(q)) =>
            ENABLED (handler_runs(q) \/ generator_resumes(q))

(***************************************************************************)
(* Properties of the outbound calls of one request                         *)
(***************************************************************************)
\* number of calls to service svc the request has made
CountCalls(svc) == Cardinality({ i \in 1..Len(net) : net[i].svc = svc })

\* the backend the request's provider tag selects, and the other one
Selected == IF request.model_provider = "ollama" THEN "ollama" ELSE "openai"
NonSelected == IF request.model_provider = "ollama" THEN "openai" ELSE "ollama"

\* the request has failed: an error response, or a stream ending in an
\* Error frame
RequestFailed ==
    \/ pc = "responded" /\ response.status_code >= 400
    \/ gpc = "ended" /\ frames # <<>> /\ IsError(Last(frames))

\* C11: no retries.  Whatever the outcome of a request on either endpoint, it
\* has made at most one URL fetch and at most one generation request to the
\* selected backend, and none to the other backend.
C11_NoRetry ==
    /\ CountCalls("fetch") <= 1
    /\ CountCalls(Selected) <= 1
    /\ CountCalls(NonSelected) = 0

\* a failed request that fetched a page once and called its backend once
C11_Witness ==
    /\ RequestFailed
    /\ CountCalls("fetch") = 1
    /\ CountCalls(Selected) = 1

\* the default model identifier of a backend
DefaultModel(svc) == IF svc = "ollama" THEN "llama2" ELSE "gpt-3.5-turbo"

\* the generation requests among the calls made
GenerationCalls == { i \in 1..Len(net) : net[i].svc # "fetch" }

\* the model_used values reported to the caller: the envelope's and the Done
\* frames'
ReportedModels ==
    (IF response.body.success THEN {response.body.model_used} ELSE {})
      \cup { frames[i].model_used : i \in { j \in 1..Len(frames) : IsDone(frames[j]) } }

\* C14: for both providers and both modes, the backend's default model is
\* sent exactly when the request's model is omitted or empty, an explicit
\* non-empty model is sent in its place, and every reported model_used is
\* '<providerTag>:<modelName>' with the model name sent to the backend.
C14_ModelUsed ==
    /\ \A i \in GenerationCalls :
          /\ (net[i].model = DefaultModel(net[i].svc)) <=> ~Truthy(request.model_name)
          /\ Truthy(request.model_name) => net[i].model = request.model_name
    /\ \A m \in ReportedModels :
          \E i \in GenerationCalls : m = <<net[i].svc, ":", net[i].model>>

\* a single-shot answer of the local backend to a request with an explicit
\* model
C14_Witness ==
    /\ pc = "responded" /\ response.body.success
    /\ request.model_provider = "ollama" /\ request.model_name = "mistral"
    /\ response.body.model_used = <<"ollama", ":", "mistral">>

\* the content was resolved: the handler reached the provider selection
ReachedSelection ==
    \/ pc = "responded" /\ endpoint = "/process" /\ ~ResolverFailed
    \/ pc = "streaming"

\* C15: on both endpoints the local adapter is used exactly when the
\* request's provider tag is 'ollama'; every other tag ('openai', an
\* unrecognized string, None) goes to the hosted adapter.
C15_ProviderSelection ==
    /\ \A i \in GenerationCalls :
          (net[i].svc = "ollama") <=> (request.model_provider = "ollama")
    /\ gen # NoGen =>
          gen.fn = IF request.model_provider = "ollama"
                   THEN "stream_ollama_response" ELSE "stream_openai_response"
    /\ (ReachedSelection /\ gpc # "created") =>
          IF request.model_provider = "ollama"
          THEN CountCalls("ollama") = 1
          ELSE IF apiKey THEN CountCalls("openai") = 1
               ELSE \/ endpoint = "/process" /\ caught = NotConfigured
                    \/ endpoint = "/process-stream"
                         /\ frames = <<ErrorFrame(<<"OpenAI API key not configured">>)>>

\* a request with an unrecognized provider tag served by the hosted backend
C15_Witness ==
    /\ pc = "responded" /\ endpoint = "/process" /\ response.body.success
    /\ request.model_provider = "other"
    /\ CountCalls("openai") = 1

\* the label the claim gives a request: the url as supplied, or the text,
\* shortened to its first PreviewLen characters and the ellipsis when longer
ExpectedLabel(req) ==
    IF TruthyStr(req.url) THEN req.url
    ELSE IF Len(req.text) <= PreviewLen THEN req.text
    ELSE SubSeq(req.text, 1, PreviewLen) \o Ellipsis

\* the source values reported to the caller: the envelope's and the Done
\* frames'
ReportedSources ==
    (IF response.body.success THEN {response.body.source} ELSE {})
      \cup { frames[i].source : i \in { j \in 1..Len(frames) : IsDone(frames[j]) } }

FetchFailed ==
    /\ CountCalls("fetch") = 1
    /\ caught.type = "HTTPException"
    /\ caught.msg # <<>> /\ Head(caught.msg) = "Failed to fetch URL: "
\* what the failed fetch reported: the transport error or the HTTP status
UpstreamDetail == Tail(caught.msg)

\* the pieces of part occur in msg, in a row
Embeds(msg, part) ==
    \E k \in 1..(Len(msg) - Len(part) + 1) : SubSeq(msg, k, k + Len(part) - 1) = part

\* the backend is called only once the content is resolved; after a failed
\* fetch no backend is called and no frame is emitted
C17_NoBackendAfterFailedFetch ==
    /\ \A i \in GenerationCalls :
          /\ ~ResolverFailed
          /\ TruthyStr(request.url) => (i = 2 /\ net[1].svc = "fetch")
    /\ FetchFailed =>
          /\ GenerationCalls = {}
          /\ gen = NoGen /\ gpc = "none" /\ frames = <<>>
          /\ pc = "responded" /\ response.status_code >= 400

\* C17: on both endpoints the backend is called only after the content was
\* resolved.  When the URL fetch fails (error status or transport failure)
\* no generation request is sent, /process-stream emits no frame, and the
\* request fails with a message that embeds the upstream detail.
C17_FetchFailureSurfaces ==
    /\ C17_NoBackendAfterFailedFetch
    /\ FetchFailed => Embeds(response.detail, UpstreamDetail)

(***************************************************************************)
(* Specification of the text extraction alone: a page body arrives, and    *)
(* lines 507-525 turn it into the content handed to the prompt builder.    *)
(***************************************************************************)
MaxTokens == 4
MaxTailTokens == 2

OpenTag(tag) == <<"<">> \o tag \o <<">">>
CloseTag(tag) == <<"<", "/">> \o tag \o <<">">>

\* pieces the page bodies are put together from
Tokens ==
    { <<"<">>, <<">">>, <<"a">>, <<"\n">>,
      OpenTag(ScriptTag), CloseTag(ScriptTag), OpenTag(StyleTag), CloseTag(StyleTag),
      <<"<", "s", "c", "r">>, <<"i", "p", "t", ">">> }
\* pieces that follow the long run of text of a long page
TailTokens == { <<"<">>, <<">">>, <<"a">>, <<" ">>, <<"<", "b", ">">> }

TokenSeqs(toks, n) == UNION { [1..k -> toks] : k \in 0..n }

RECURSIVE Flatten(_)
Flatten(ts) == IF ts = <<>> THEN <<>> ELSE Head(ts) \o Flatten(Tail(ts))

\* a run of n letters
Filler(n) == [i \in 1..n |-> "a"]
\* lengths of the run: around the truncation limit
FillerLens == { MAX_CONTENT - 1, MAX_CONTENT, MAX_CONTENT + 1 }

\* page bodies: every sequence of at most MaxTokens pieces, and long pages
\* made of a run of letters followed by at most MaxTailTokens pieces
PageBodies ==
    { Flatten(ts) : ts \in TokenSeqs(Tokens, MaxTokens) }
      \cup { Filler(n) \o Flatten(ts) :
                n \in FillerLens, ts \in TokenSeqs(TailTokens, MaxTailTokens) }

InitExtract ==
    /\ apiKey = FALSE
    /\ pc = "idle"
    /\ endpoint = ""
    /\ request = NoRequest
    /\ response = NoResponse
    /\ net = <<>>
    /\ gen = NoGen
    /\ gpc = "none"
    /\ frames = <<>>
    /\ reads = 0
    /\ ev = NoEvent
    /\ caught = NoExc
    /\ httpExcStr = TRUE
    /\ running = 0
    /\ task = <<>>
    /\ page \in PageBodies
    /\ content = NoneStr

\* lines 507-525 run on the page
extract ==
    /\ content = NoneStr
    /\ content' = extract_text(page)
    /\ UNCHANGED <<apiKey, pc, endpoint, request, response, net, gen, gpc, frames,
                   reads, ev, caught, httpExcStr, running, task, page>>

NextExtract == extract

SpecExtract == InitExtract /\ [][NextExtract]_vars

\* the text before the length limit is applied: script blocks, style blocks
\* and tags removed, whitespace collapsed, trimmed
Sanitized(html) ==
    Strip(CollapseWhitespace(RemoveTags(
        RemoveBlocks(RemoveBlocks(html, ScriptTag), StyleTag))))

\* C12: the sanitization of a fetched page is idempotent.  For every page,
\* applying the extraction to the content it returned yields that content
\* unchanged.
C12_Idempotent ==
    content # NoneStr => extract_text(content) = content

\* a page with markup whose content was cut at the limit
C12_Witness ==
    /\ content # NoneStr
    /\ Len(content) > MAX_CONTENT
    /\ \E i \in 1..Len(page) : page[i] = "<"
    /\ extract_text(content) = content

\* C13: the content returned for a page is never longer than MAX_CONTENT plus
\* the length of the truncation marker; the marker is appended exactly when
\* the sanitized text is longer than MAX_CONTENT characters, and a sanitized
\* text of at most MAX_CONTENT characters is returned as it is.
C13_Truncation ==
    content # NoneStr =>
        \A c \in {Sanitized(page)} :
            /\ Len(content) <= MAX_CONTENT + Len(TruncationMarker)
            /\ Len(c) > MAX_CONTENT =>
                   content = SubSeq(c, 1, MAX_CONTENT) \o TruncationMarker
            /\ Len(c) <= MAX_CONTENT => content = c

\* a sanitized text one character over the limit, cut and marked
C13_Witness ==
    /\ content # NoneStr
    /\ Len(Sanitized(page)) = MAX_CONTENT + 1
    /\ Len(content) = MAX_CONTENT + Len(TruncationMarker)

====
